---- MODULE Spec2Model ----
(***************************************************************************)
(* The illustration section of the async-pixiv client (ILLUST) and the     *)
(* ArtWork model object's convenience methods.  One call is followed from  *)
(* its start to its end: every `await` of the coroutine is a point where   *)
(* the call waits for the transport, and the action that follows it is the *)
(* code that runs when the awaited request completes.                      *)
(***************************************************************************)
EXTENDS Integers, Sequences, FiniteSets, TLC

VARIABLES pc, call, artwork, metadata, requests, result, outcome

vars == <<pc, call, artwork, metadata, requests, result, outcome>>

(***************************************************************************)
(* Bounds of the model.                                                    *)
(***************************************************************************)
MaxPages == 2
MaxFrames == 2
MaxEntries == 2

(***************************************************************************)
(* Python values.  Every value carries its type as a tag, so that a list   *)
(* holding a value and the value itself, or None and the string "None",    *)
(* are different values.                                                   *)
(***************************************************************************)
PyNone == <<"None">>
PyStr(s) == <<"str", s>>
PyInt(n) == <<"int", n>>
PyBool(b) == <<"bool", b>>
PyList(s) == <<"list", s>>
PyBytes(u) == <<"bytes", u>>

\* Python truthiness of the values used in `or` chains and `not` tests.
Truthy(v) ==
    CASE v = PyNone -> FALSE
      [] v[1] = "bool" -> v[2]
      [] v[1] = "list" -> v[2] # <<>>
      [] v[1] = "str" -> v[2] # ""
      [] OTHER -> TRUE

\* a or b
PyOr(a, b) == IF Truthy(a) THEN a ELSE b

\* str(v) for an URL (a str subclass) or None
Str(v) == IF v = PyNone THEN PyStr("None") ELSE v

(***************************************************************************)
(* Model objects.                                                          *)
(***************************************************************************)
ArtWorkType == {"illust", "ugoira", "manga", "novel"}

\* ArtWorkType.__eq__ between two members: equality of their values.
ArtWorkType_eq(a, b) == a = b

Ids == {1, 2}

\* An URL of the bundle named `prefix`, for the resolution `variant`.
Url(prefix, variant) == PyStr(prefix \o "/" \o variant)

\* ImageUrl: every resolution variant is optional.
ImageUrl(prefix, has) ==
    [original |-> IF "original" \in has THEN Url(prefix, "original") ELSE PyNone,
     large    |-> IF "large" \in has THEN Url(prefix, "large") ELSE PyNone,
     medium   |-> IF "medium" \in has THEN Url(prefix, "medium") ELSE PyNone]

Variants == {"original", "large", "medium"}

\* The bundles a meta page carries in the model: each prefix of the
\* fallback chain absent.
PagePatterns ==
    {{"original", "large", "medium"}, {"large", "medium"}, {"medium"}, {}}

PageName == [i \in 1..(MaxPages + 1) |-> "p" \o ToString(i)]

MetaPagesOf(f) ==
    [i \in DOMAIN f |-> [image_urls |-> ImageUrl(PageName[i], f[i])]]

MetaPageLists ==
    UNION {{MetaPagesOf(f) : f \in [1..n -> PagePatterns]} : n \in 0..MaxPages}

ArtWorks ==
    [id : Ids,
     type : ArtWorkType,
     image_urls : {ImageUrl("img", has) : has \in SUBSET Variants},
     meta_single_page :
        [original : {PyNone, Url("single", "original")}],
     meta_pages : MetaPageLists]

\* No object is held yet.
NoObject == [absent |-> TRUE]

(***************************************************************************)
(* Calls, requests and outcomes.                                           *)
(***************************************************************************)
Omitted == <<"omitted">>

\* The keyword arguments a caller passes: the fields of r that are given.
Passed(r) == [k \in {n \in DOMAIN r : r[n] # Omitted} |-> r[k]]

\* The value of parameter `name` in the body: the argument, or the
\* signature's default when the caller omits it.
Arg(name, default) ==
    IF name \in DOMAIN call.args THEN call.args[name] ELSE default

SearchFilter_ios == PyStr("for_ios")
SearchFilter_android == PyStr("for_android")

NoParams == [k \in {} |-> PyNone]

\* PixivClient.get(url, params=params)
GetRequest(endpoint, params) ==
    [kind |-> "get", target |-> PyStr(endpoint), params |-> params,
     output |-> PyNone, status |-> <<"inflight">>]

\* PixivClient.download(url, output=output); output defaults to None.
DownloadRequest(url, output) ==
    [kind |-> "download", target |-> url, params |-> NoParams,
     output |-> output, status |-> <<"inflight">>]

\* The last request completes.
Settle(reqs, st) == [reqs EXCEPT ![Len(reqs)].status = st]

Pending == <<"pending">>
Returned(v) == <<"returned", v>>
Raised(e) == <<"raised", e>>

\* A handler that swallows the exception and returns None instead.
Propagate_swallowed(e) == Returned(PyNone)

\* An exception raised by an awaited step inside a call: no handler
\* surrounds any await, so it leaves the call as it is.
Propagate(e) == Raised(e)

\* The ways the transport and the validation layer fail.
GetErrors == {"NetworkError", "JSONDecodeError", "ValidationError"}
DownloadErrors == {"NetworkError"}

Init ==
    /\ pc = "idle"
    /\ call = [obj |-> "none", op |-> "none", args |-> NoParams]
    /\ artwork = NoObject
    /\ metadata = NoObject
    /\ requests = <<>>
    /\ result = <<>>
    /\ outcome = Pending

(***************************************************************************)
(* ILLUST.detail                                                           *)
(***************************************************************************)
\* _Section.detail(id, filter=filter): one GET of the detail endpoint.
Section_detail(id, filter) ==
    GetRequest("v1/illust/detail", [illust_id |-> PyInt(id), filter |-> filter])

ILLUST_detail_request(id, filter) == Section_detail(id, filter)

(***************************************************************************)
(* Static-image download.                                                  *)
(***************************************************************************)
\* The URL of the single-image branch of ILLUST.download.
ILLUST_single_url(a) ==
    Str(PyOr(PyOr(a.meta_single_page.original, a.image_urls.original),
             a.image_urls.large))

\* The URL of one meta page in ILLUST.download.
ILLUST_page_url(p) == Str(PyOr(p.image_urls.original, p.image_urls.large))

\* The single-image download request of ILLUST.download.
ILLUST_single_request(a, output) ==
    DownloadRequest(ILLUST_single_url(a), output)

\* The download request of one meta page in ILLUST.download.
ILLUST_page_request(p, output) ==
    DownloadRequest(ILLUST_page_url(p), output)

\* The URL of the single-image branch of ArtWork.download.
ArtWork_single_url(a) ==
    Str(PyOr(PyOr(a.meta_single_page.original, a.image_urls.original),
             a.image_urls.large))

\* The URL of one meta page in ArtWork.download.
ArtWork_page_url(p) == Str(PyOr(p.image_urls.original, p.image_urls.large))

\* The single-image download request of ArtWork.download: output is not
\* passed on.
ArtWork_single_request(a, output) ==
    DownloadRequest(ArtWork_single_url(a), PyNone)

\* The download request of one meta page in ArtWork.download.
ArtWork_page_request(p, output) ==
    DownloadRequest(ArtWork_page_url(p), output)

\* A loop that walks the meta pages from the last to the first.
ILLUST_next_page_reversed(a, got) == a.meta_pages[Len(a.meta_pages) - Len(got)]

\* The meta page the loop of ILLUST.download takes after `got` results.
ILLUST_next_page(a, got) == a.meta_pages[Len(got) + 1]

\* The meta page the loop of ArtWork.download takes after `got` results.
ArtWork_next_page(a, got) == a.meta_pages[Len(got) + 1]

\* `not full or not artwork.meta_pages`
SingleBranch(full, a) == ~Truthy(full) \/ ~Truthy(PyList(a.meta_pages))

DownloadArgs ==
    {Passed(r) : r \in [full : {Omitted, PyBool(TRUE), PyBool(FALSE)},
                        filter : {Omitted, SearchFilter_android},
                        output : {Omitted, PyStr("out.jpg")}]}

\* ILLUST.download up to its first await: the detail request.
ILLUST_download ==
    /\ pc = "idle"
    /\ \E id \in Ids, args \in DownloadArgs :
         /\ call' = [obj |-> "ILLUST", op |-> "download",
                     args |-> args @@ [id |-> PyInt(id)]]
         /\ requests' =
              <<ILLUST_detail_request(
                  id, IF "filter" \in DOMAIN args THEN args.filter
                      ELSE SearchFilter_ios)>>
    /\ pc' = "detail"
    /\ UNCHANGED <<artwork, metadata, result, outcome>>

\* ILLUST.download from the completion of the detail request to the next
\* await: the type check and the first image download.
ILLUST_download_detail ==
    /\ pc = "detail"
    /\ call.obj = "ILLUST" /\ call.op = "download"
    /\ \/ \E e \in GetErrors :
            /\ requests' = Settle(requests, <<"failed", e>>)
            /\ outcome' = Propagate(e)
            /\ pc' = "done"
            /\ UNCHANGED <<artwork, result>>
       \/ \E a \in ArtWorks :
            /\ a.id = call.args.id[2]
            /\ artwork' = a
            /\ IF ArtWorkType_eq(a.type, "ugoira")
               THEN /\ requests' = Settle(requests, <<"ok">>)
                    /\ outcome' = Raised("ArtWorkTypeError")
                    /\ pc' = "done"
               ELSE /\ requests' =
                         Append(Settle(requests, <<"ok">>),
                                IF SingleBranch(Arg("full", PyBool(FALSE)), a)
                                THEN ILLUST_single_request(a, Arg("output", PyNone))
                                ELSE ILLUST_page_request(ILLUST_next_page(a, <<>>),
                                                         Arg("output", PyNone)))
                    /\ outcome' = outcome
                    /\ pc' = "image"
            /\ UNCHANGED result
    /\ UNCHANGED <<call, metadata>>

\* The bytes the transport returns for a completed download.
Downloaded(req) == PyBytes(req.target)

\* ILLUST.download from the completion of an image download: the result
\* is returned, or the next page is requested.
ILLUST_download_image ==
    /\ pc = "image"
    /\ call.obj = "ILLUST"
    /\ \/ \E e \in DownloadErrors :
            /\ requests' = Settle(requests, <<"failed", e>>)
            /\ outcome' = Propagate(e)
            /\ pc' = "done"
            /\ UNCHANGED result
       \/ LET got == Append(result, Downloaded(requests[Len(requests)]))
          IN  /\ result' = got
              /\ IF SingleBranch(Arg("full", PyBool(FALSE)), artwork)
                    \/ Len(got) = Len(artwork.meta_pages)
                 THEN /\ requests' = Settle(requests, <<"ok">>)
                      /\ outcome' = Returned(PyList(got))
                      /\ pc' = "done"
                 ELSE /\ requests' =
                           Append(Settle(requests, <<"ok">>),
                                  ILLUST_page_request(
                                      ILLUST_next_page(artwork, got),
                                      Arg("output", PyNone)))
                      /\ outcome' = outcome
                      /\ pc' = "image"
    /\ UNCHANGED <<call, artwork, metadata>>

ArtWorkDownloadArgs ==
    {Passed(r) : r \in [full : {Omitted, PyBool(TRUE), PyBool(FALSE)},
                        output : {Omitted, PyStr("out.jpg")}]}

\* ArtWork.download up to its first await: the first image download.
ArtWork_download ==
    /\ pc = "idle"
    /\ \E a \in ArtWorks, args \in ArtWorkDownloadArgs :
         LET full == IF "full" \in DOMAIN args THEN args.full ELSE PyBool(FALSE)
             output == IF "output" \in DOMAIN args THEN args.output ELSE PyNone
         IN  /\ call' = [obj |-> "ArtWork", op |-> "download", args |-> args]
             /\ artwork' = a
             /\ requests' =
                  <<IF SingleBranch(full, a)
                    THEN ArtWork_single_request(a, output)
                    ELSE ArtWork_page_request(ArtWork_next_page(a, <<>>), output)>>
    /\ pc' = "image"
    /\ UNCHANGED <<metadata, result, outcome>>

\* ArtWork.download from the completion of an image download.
ArtWork_download_image ==
    /\ pc = "image"
    /\ call.obj = "ArtWork"
    /\ \/ \E e \in DownloadErrors :
            /\ requests' = Settle(requests, <<"failed", e>>)
            /\ outcome' = Propagate(e)
            /\ pc' = "done"
            /\ UNCHANGED result
       \/ LET got == Append(result, Downloaded(requests[Len(requests)]))
          IN  /\ result' = got
              /\ IF SingleBranch(Arg("full", PyBool(FALSE)), artwork)
                    \/ Len(got) = Len(artwork.meta_pages)
                 THEN /\ requests' = Settle(requests, <<"ok">>)
                      /\ outcome' = Returned(PyList(got))
                      /\ pc' = "done"
                 ELSE /\ requests' =
                           Append(Settle(requests, <<"ok">>),
                                  ArtWork_page_request(
                                      ArtWork_next_page(artwork, got),
                                      Arg("output", PyNone)))
                      /\ outcome' = outcome
                      /\ pc' = "image"
    /\ UNCHANGED <<call, artwork, metadata>>

(***************************************************************************)
(* Ugoira download.                                                        *)
(***************************************************************************)
FrameNames == {"000000.jpg", "000001.jpg"}

\* UgoiraMetadata.frames: an ordered list of Frame(file, delay).
Manifests ==
    UNION {[1..n -> [file : FrameNames, delay : {40}]] : n \in 0..MaxFrames}

UgoiraMetadatas ==
    [zip_url : {ImageUrl("zip", has) : has \in SUBSET Variants},
     frames : Manifests]

\* The archives a ZIP download can hold: entries in archive order.
Archives ==
    UNION {[1..n -> [name : FrameNames, content : {"A", "B"}]] :
              n \in 0..MaxEntries}

\* What the ZIP download yields: nothing, bytes that are no archive, or
\* the bytes of an archive.
ZipDatas ==
    {PyNone, <<"garbage">>} \cup {<<"zipdata", ar>> : ar \in Archives}

\* The works an ugoira call is made on: works that differ in type only.
Subjects ==
    {a \in ArtWorks : /\ a.meta_pages = <<>>
                      /\ a.image_urls = ImageUrl("img", Variants)
                      /\ a.meta_single_page.original # PyNone}

\* ILLUST.ugoira_metadata: one GET of the metadata endpoint.
ILLUST_ugoira_metadata_request(id) ==
    GetRequest("v1/ugoira/metadata", [illust_id |-> PyInt(id)])

\* The ZIP download of ILLUST.download_ugoira.
ILLUST_zip_request(md) ==
    DownloadRequest(
        PyOr(PyOr(md.zip_url.original, md.zip_url.large), md.zip_url.medium),
        PyNone)

\* The ZIP download of ArtWork.download_ugoira.
ArtWork_zip_request(md) ==
    DownloadRequest(
        PyOr(PyOr(md.zip_url.original, md.zip_url.large), md.zip_url.medium),
        PyNone)

\* ZipFile.open(name).read(): the entry the archive's name table holds for
\* the name, which is the last entry of that name; KeyError without one.
ZipRead(ar, name) ==
    LET hits == {j \in DOMAIN ar : ar[j].name = name}
    IN  IF hits = {} THEN <<"KeyError">>
        ELSE <<"ok", ar[CHOOSE j \in hits : \A k \in hits : k <= j].content>>

\* A frame loop that reads the archive's entries in archive order.
ILLUST_read_frames_archive_order(ar, manifest, i, frames) ==
    <<"ok", [j \in DOMAIN ar |-> ar[j].content]>>

\* The frame loop of ILLUST.download_ugoira from manifest position i on,
\* with `frames` read so far.
RECURSIVE ILLUST_read_frames(_, _, _, _)
ILLUST_read_frames(ar, manifest, i, frames) ==
    IF i > Len(manifest) THEN <<"ok", frames>>
    ELSE LET r == ZipRead(ar, manifest[i].file)
         IN  IF r[1] = "KeyError" THEN r
             ELSE ILLUST_read_frames(ar, manifest, i + 1, Append(frames, r[2]))

\* The frame loop of ArtWork.download_ugoira.
RECURSIVE ArtWork_read_frames(_, _, _, _)
ArtWork_read_frames(ar, manifest, i, frames) ==
    IF i > Len(manifest) THEN <<"ok", frames>>
    ELSE LET r == ZipRead(ar, manifest[i].file)
         IN  IF r[1] = "KeyError" THEN r
             ELSE ArtWork_read_frames(ar, manifest, i + 1, Append(frames, r[2]))

\* An unpacking that reads the manifest's frames before it looks at the
\* mode.
ILLUST_unpack_frames_first(data, type, md) ==
    IF data = PyNone THEN Returned(PyNone)
    ELSE IF data[1] # "zipdata" THEN Propagate("BadZipFile")
    ELSE LET r == ILLUST_read_frames(data[2], md.frames, 1, <<>>)
         IN  IF r[1] = "KeyError" THEN Propagate("KeyError")
             ELSE IF type = PyStr("zip") THEN Returned(<<"ZipFile", data[2]>>)
             ELSE IF type = PyStr("jpg") THEN Returned(PyList(r[2]))
             ELSE IF type = PyStr("iter") THEN Returned(<<"iter", r[2]>>)
             ELSE Returned(<<"dict", [zip |-> <<"ZipFile", data[2]>>,
                                      frames |-> PyList(r[2])]>>)

\* ILLUST.download_ugoira after the ZIP download returned `data`: the
\* outcome of the call.
ILLUST_unpack(data, type, md) ==
    IF data = PyNone THEN Returned(PyNone)
    ELSE IF data[1] # "zipdata" THEN Propagate("BadZipFile")
    ELSE IF type = PyStr("zip") THEN Returned(<<"ZipFile", data[2]>>)
    ELSE LET r == ILLUST_read_frames(data[2], md.frames, 1, <<>>)
         IN  IF r[1] = "KeyError" THEN Propagate("KeyError")
             ELSE IF type = PyStr("jpg") THEN Returned(PyList(r[2]))
             ELSE IF type = PyStr("iter") THEN Returned(<<"iter", r[2]>>)
             ELSE Returned(<<"dict", [zip |-> <<"ZipFile", data[2]>>,
                                      frames |-> PyList(r[2])]>>)

\* ArtWork.download_ugoira after the ZIP download returned `data`.
ArtWork_unpack(data, type, md) ==
    IF data = PyNone THEN Returned(PyNone)
    ELSE IF data[1] # "zipdata" THEN Propagate("BadZipFile")
    ELSE IF type = PyStr("zip") THEN Returned(<<"ZipFile", data[2]>>)
    ELSE LET r == ArtWork_read_frames(data[2], md.frames, 1, <<>>)
         IN  IF r[1] = "KeyError" THEN Propagate("KeyError")
             ELSE IF type = PyStr("jpg") THEN Returned(PyList(r[2]))
             ELSE IF type = PyStr("iter") THEN Returned(<<"iter", r[2]>>)
             ELSE Returned(<<"dict", [zip |-> <<"ZipFile", data[2]>>,
                                      frames |-> PyList(r[2])]>>)

UgoiraArgs ==
    {Passed(r) : r \in [type : {Omitted, PyStr("zip"), PyStr("jpg"),
                                PyStr("all"), PyStr("iter")}]}

\* ILLUST.download_ugoira up to its first await: the metadata request.
\* `artwork` is the work the id names, which the call never looks at: an
\* ugoira or, for the works of another type, an illust.
ILLUST_download_ugoira ==
    /\ pc = "idle"
    /\ \E a \in Subjects, args \in UgoiraArgs :
         /\ a.type \in {"ugoira", "illust"}
         /\ call' = [obj |-> "ILLUST", op |-> "download_ugoira",
                     args |-> args @@ [id |-> PyInt(a.id)]]
         /\ artwork' = a
         /\ requests' = <<ILLUST_ugoira_metadata_request(a.id)>>
    /\ pc' = "meta"
    /\ UNCHANGED <<metadata, result, outcome>>

\* ILLUST.download_ugoira from the completion of the metadata request to
\* the ZIP download.
ILLUST_download_ugoira_meta ==
    /\ pc = "meta"
    /\ call.obj = "ILLUST" /\ call.op = "download_ugoira"
    /\ \/ \E e \in GetErrors :
            /\ requests' = Settle(requests, <<"failed", e>>)
            /\ outcome' = Propagate(e)
            /\ pc' = "done"
            /\ UNCHANGED metadata
       \/ \E md \in UgoiraMetadatas :
            /\ metadata' = md
            /\ requests' = Append(Settle(requests, <<"ok">>), ILLUST_zip_request(md))
            /\ outcome' = outcome
            /\ pc' = "zip"
    /\ UNCHANGED <<call, artwork, result>>

\* ILLUST.download_ugoira from the completion of the ZIP download.
ILLUST_download_ugoira_zip ==
    /\ pc = "zip"
    /\ call.obj = "ILLUST"
    /\ \/ \E e \in DownloadErrors :
            /\ requests' = Settle(requests, <<"failed", e>>)
            /\ outcome' = Propagate(e)
            /\ result' = result
       \/ \E data \in ZipDatas :
            /\ requests' = Settle(requests, <<"ok">>)
            /\ result' = <<data>>
            /\ outcome' = ILLUST_unpack(data, Arg("type", PyStr("zip")), metadata)
    /\ pc' = "done"
    /\ UNCHANGED <<call, artwork, metadata>>

\* ArtWork.download_ugoira up to its first await: the type check, then
\* ArtWork.ugoira_metadata and its metadata request.
ArtWork_download_ugoira ==
    /\ pc = "idle"
    /\ \E a \in Subjects, args \in UgoiraArgs :
         /\ call' = [obj |-> "ArtWork", op |-> "download_ugoira", args |-> args]
         /\ artwork' = a
         /\ IF ~ArtWorkType_eq(a.type, "ugoira")
            THEN /\ outcome' = Raised("ArtWorkTypeError")
                 /\ requests' = requests
                 /\ pc' = "done"
            ELSE /\ outcome' = outcome
                 /\ requests' = <<ILLUST_ugoira_metadata_request(a.id)>>
                 /\ pc' = "meta"
    /\ UNCHANGED <<metadata, result>>

\* ArtWork.download_ugoira from the completion of the metadata request to
\* the ZIP download.
ArtWork_download_ugoira_meta ==
    /\ pc = "meta"
    /\ call.obj = "ArtWork" /\ call.op = "download_ugoira"
    /\ \/ \E e \in GetErrors :
            /\ requests' = Settle(requests, <<"failed", e>>)
            /\ outcome' = Propagate(e)
            /\ pc' = "done"
            /\ UNCHANGED metadata
       \/ \E md \in UgoiraMetadatas :
            /\ metadata' = md
            /\ requests' = Append(Settle(requests, <<"ok">>), ArtWork_zip_request(md))
            /\ outcome' = outcome
            /\ pc' = "zip"
    /\ UNCHANGED <<call, artwork, result>>

\* ArtWork.download_ugoira from the completion of the ZIP download.
ArtWork_download_ugoira_zip ==
    /\ pc = "zip"
    /\ call.obj = "ArtWork"
    /\ \/ \E e \in DownloadErrors :
            /\ requests' = Settle(requests, <<"failed", e>>)
            /\ outcome' = Propagate(e)
            /\ result' = result
       \/ \E data \in ZipDatas :
            /\ requests' = Settle(requests, <<"ok">>)
            /\ result' = <<data>>
            /\ outcome' = ArtWork_unpack(data, Arg("type", PyStr("zip")), metadata)
    /\ pc' = "done"
    /\ UNCHANGED <<call, artwork, metadata>>

(***************************************************************************)
(* The one-request accessors.                                              *)
(***************************************************************************)
Pad2(n) == IF n < 10 THEN "0" \o ToString(n) ELSE ToString(n)

\* date.strftime("%Y-%m-%d")
Strftime(d) == PyStr(ToString(d[2]) \o "-" \o Pad2(d[3]) \o "-" \o Pad2(d[4]))

\* The type object `list`.
ListType == <<"type", "list">>

\* a is not b
PyIsNot(a, b) == a # b

\* _Section.search(**kwargs): one GET of the search endpoint, the keyword
\* arguments being the query.
Section_search(kwargs) == GetRequest("v1/search/illust", kwargs)

\* ILLUST.follow
ILLUST_follow_request(offset) ==
    GetRequest("v2/illust/follow",
               [restrict |-> PyStr("public"), offset |-> offset])

\* ILLUST.search: the dates are formatted, the named arguments handed to
\* _Section.search; **kwargs is not handed on.
ILLUST_search_request(word, sort, target, duration, filter, offset, min_bookmarks, max_bookmarks, start_date, end_date, kwargs) ==
    LET start == IF start_date # PyNone THEN Strftime(start_date) ELSE start_date
        end == IF end_date # PyNone THEN Strftime(end_date) ELSE end_date
    IN  Section_search(
            [word |-> word, sort |-> sort, duration |-> duration,
             filter |-> filter, offset |-> offset,
             bookmark_num_min |-> min_bookmarks,
             bookmark_num_max |-> max_bookmarks, target |-> target,
             start_date |-> start, end_date |-> end])

\* ILLUST.comments
ILLUST_comments_request(id, offset) ==
    GetRequest("v1/illust/comments", [illust_id |-> PyInt(id), offset |-> offset])

\* ILLUST.related
ILLUST_related_request(id, filter, offset, seed_ids) ==
    GetRequest("v2/illust/related",
               [illust_id |-> PyInt(id), offset |-> offset, filter |-> filter,
                seed_illust_ids |->
                    IF PyIsNot(seed_ids, ListType) THEN PyList(<<seed_ids>>)
                    ELSE seed_ids])

\* ILLUST.recommended
ILLUST_recommended_request(with_auth, type, include_ranking_label, include_ranking_illusts, offset, filter, max_bookmark_id_for_recommend, min_bookmark_id_for_recent_illust, bookmark_illust_ids, include_privacy_policy, viewed) ==
    GetRequest(IF Truthy(with_auth) THEN "v1/illust/recommended"
               ELSE "v1/illust/recommended-nologin",
               [content_type |-> type,
                include_ranking_label |-> include_ranking_label,
                include_ranking_illusts |-> include_ranking_illusts,
                offset |-> offset, filter |-> filter, viewed |-> viewed,
                max_bookmark_id_for_recommend |-> max_bookmark_id_for_recommend,
                min_bookmark_id_for_recent_illust |->
                    min_bookmark_id_for_recent_illust,
                bookmark_illust_ids |-> bookmark_illust_ids,
                include_privacy_policy |-> include_privacy_policy])

\* ILLUST.new_illusts
ILLUST_new_illusts_request(type, max_illust_id, filter) ==
    GetRequest("v1/illust/new",
               [content_type |-> type, max_illust_id |-> max_illust_id,
                filter |-> filter])

\* The argument `name` of the call being started with `args`, or `default`.
Given(args, name, default) ==
    IF name \in DOMAIN args THEN args[name] ELSE default

\* An accessor call starts: its one request is issued.
Start(op, args, req) ==
    /\ call' = [obj |-> "ILLUST", op |-> op, args |-> args]
    /\ requests' = <<req>>
    /\ pc' = "get"
    /\ UNCHANGED <<artwork, metadata, result, outcome>>

Filters == {Omitted, SearchFilter_android, PyNone}
Offsets == {Omitted, PyInt(30)}

ILLUST_follow ==
    /\ pc = "idle"
    /\ \E args \in {Passed(r) : r \in [offset : Offsets]} :
           Start("follow", args, ILLUST_follow_request(Given(args, "offset", PyNone)))

SearchArgs ==
    {Passed(r) : r \in
        [word : {PyStr("cat")},
         sort : {Omitted, PyStr("popular_desc")},
         target : {Omitted, PyStr("keyword")},
         duration : {Omitted, PyStr("within_last_day")},
         filter : {Omitted, SearchFilter_android},
         offset : Offsets,
         min_bookmarks : {Omitted, PyInt(100)},
         max_bookmarks : {Omitted, PyInt(900)},
         start_date : {Omitted, <<"date", 2022, 3, 7>>},
         end_date : {Omitted, <<"date", 2022, 11, 30>>},
         include_translated_tag_results : {Omitted, PyBool(TRUE)}]}

\* The parameters ILLUST.search names; any other keyword lands in **kwargs.
SearchNamed ==
    {"word", "sort", "target", "duration", "filter", "offset", "min_bookmarks",
     "max_bookmarks", "start_date", "end_date"}

ILLUST_search ==
    /\ pc = "idle"
    /\ \E args \in SearchArgs :
           Start("search", args,
                 ILLUST_search_request(
                     args.word,
                     Given(args, "sort", PyStr("date_desc")),
                     Given(args, "target", PyStr("partial_match_for_tags")),
                     Given(args, "duration", PyNone),
                     Given(args, "filter", SearchFilter_ios),
                     Given(args, "offset", PyNone),
                     Given(args, "min_bookmarks", PyNone),
                     Given(args, "max_bookmarks", PyNone),
                     Given(args, "start_date", PyNone),
                     Given(args, "end_date", PyNone),
                     [k \in DOMAIN args \ SearchNamed |-> args[k]]))

ILLUST_detail ==
    /\ pc = "idle"
    /\ \E id \in Ids, args \in {Passed(r) : r \in [filter : Filters]} :
           Start("detail", args @@ [id |-> PyInt(id)],
                 ILLUST_detail_request(id, Given(args, "filter", SearchFilter_ios)))

ILLUST_comments ==
    /\ pc = "idle"
    /\ \E id \in Ids, args \in {Passed(r) : r \in [offset : Offsets]} :
           Start("comments", args @@ [id |-> PyInt(id)],
                 ILLUST_comments_request(id, Given(args, "offset", PyNone)))

SeedIds == {Omitted, PyInt(5), PyList(<<>>), PyList(<<PyInt(5), PyInt(6)>>)}

ILLUST_related ==
    /\ pc = "idle"
    /\ \E id \in Ids,
          args \in {Passed(r) : r \in [filter : Filters, offset : Offsets,
                                       seed_ids : SeedIds]} :
           Start("related", args @@ [id |-> PyInt(id)],
                 ILLUST_related_request(id,
                                        Given(args, "filter", SearchFilter_ios),
                                        Given(args, "offset", PyNone),
                                        Given(args, "seed_ids", PyNone)))

RecommendedArgs ==
    {Passed(r) : r \in
        [with_auth : {Omitted, PyBool(FALSE)},
         type : {Omitted, PyStr("manga")},
         include_ranking_label : {Omitted, PyBool(FALSE)},
         include_ranking_illusts : {Omitted, PyBool(TRUE)},
         offset : Offsets,
         filter : {Omitted, SearchFilter_android},
         max_bookmark_id_for_recommend : {Omitted, PyInt(77)},
         min_bookmark_id_for_recent_illust : {Omitted, PyInt(11)},
         bookmark_illust_ids : {Omitted, PyList(<<PyInt(5), PyInt(6)>>)},
         include_privacy_policy : {Omitted, PyStr("yes")},
         viewed : {Omitted, PyList(<<PyInt(9)>>)}]}

ILLUST_recommended ==
    /\ pc = "idle"
    /\ \E args \in RecommendedArgs :
           Start("recommended", args,
                 ILLUST_recommended_request(
                     Given(args, "with_auth", PyBool(TRUE)),
                     Given(args, "type", PyStr("illust")),
                     Given(args, "include_ranking_label", PyBool(TRUE)),
                     Given(args, "include_ranking_illusts", PyNone),
                     Given(args, "offset", PyNone),
                     Given(args, "filter", SearchFilter_ios),
                     Given(args, "max_bookmark_id_for_recommend", PyNone),
                     Given(args, "min_bookmark_id_for_recent_illust", PyNone),
                     Given(args, "bookmark_illust_ids", PyNone),
                     Given(args, "include_privacy_policy", PyNone),
                     Given(args, "viewed", PyNone)))

ILLUST_new_illusts ==
    /\ pc = "idle"
    /\ \E args \in {Passed(r) : r \in [type : {Omitted, PyStr("manga")},
                                       filter : Filters,
                                       max_illust_id : {Omitted, PyInt(500)}]} :
           Start("new_illusts", args,
                 ILLUST_new_illusts_request(
                     Given(args, "type", PyStr("illust")),
                     Given(args, "max_illust_id", PyNone),
                     Given(args, "filter", SearchFilter_ios)))

ILLUST_ugoira_metadata ==
    /\ pc = "idle"
    /\ \E id \in Ids :
           Start("ugoira_metadata", [id |-> PyInt(id)],
                 ILLUST_ugoira_metadata_request(id))

\* ArtWork.related: ILLUST.related on the work's id, the one seed id
\* handed on as seed_ids.
ArtWork_related ==
    /\ pc = "idle"
    /\ \E a \in Subjects,
          args \in {Passed(r) : r \in [for_ios : {Omitted, PyBool(FALSE)},
                                       offset : Offsets,
                                       seed_id : {Omitted, PyInt(5)}]} :
         /\ call' = [obj |-> "ArtWork", op |-> "related", args |-> args]
         /\ artwork' = a
         /\ requests' =
              <<ILLUST_related_request(
                  a.id,
                  IF Truthy(Given(args, "for_ios", PyBool(TRUE)))
                  THEN SearchFilter_ios ELSE SearchFilter_android,
                  Given(args, "offset", PyNone),
                  Given(args, "seed_id", PyNone))>>
    /\ pc' = "get"
    /\ UNCHANGED <<metadata, result, outcome>>

\* ArtWork.ugoira_metadata: None for a work that is no ugoira, else
\* ILLUST.ugoira_metadata on the work's id.
ArtWork_ugoira_metadata ==
    /\ pc = "idle"
    /\ \E a \in Subjects :
         /\ call' = [obj |-> "ArtWork", op |-> "ugoira_metadata",
                     args |-> NoParams]
         /\ artwork' = a
         /\ IF ~ArtWorkType_eq(a.type, "ugoira")
            THEN /\ outcome' = Returned(PyNone)
                 /\ requests' = requests
                 /\ pc' = "done"
            ELSE /\ outcome' = outcome
                 /\ requests' = <<ILLUST_ugoira_metadata_request(a.id)>>
                 /\ pc' = "get"
    /\ UNCHANGED <<metadata, result>>

\* An accessor that issues its request once more when the first one fails.
ILLUST_accessor_retry ==
    /\ pc = "get"
    /\ \/ \E e \in GetErrors :
            /\ Len(requests) = 1
            /\ requests' = Append(Settle(requests, <<"failed", e>>),
                                  [requests[1] EXCEPT !.status = <<"inflight">>])
            /\ outcome' = outcome
            /\ pc' = "get"
       \/ /\ requests' = Settle(requests, <<"ok">>)
          /\ outcome' = Returned(<<"result", call.op>>)
          /\ pc' = "done"
    /\ UNCHANGED <<call, artwork, metadata, result>>

\* An accessor from the completion of its request: the JSON body is
\* validated and the result object returned.
ILLUST_accessor_done ==
    /\ pc = "get"
    /\ \/ \E e \in GetErrors :
            /\ requests' = Settle(requests, <<"failed", e>>)
            /\ outcome' = Propagate(e)
       \/ /\ requests' = Settle(requests, <<"ok">>)
          /\ outcome' = Returned(<<"result", call.op>>)
    /\ pc' = "done"
    /\ UNCHANGED <<call, artwork, metadata, result>>

Next ==
    \/ ILLUST_download
    \/ ILLUST_download_detail
    \/ ILLUST_download_image
    \/ ArtWork_download
    \/ ArtWork_download_image
    \/ ILLUST_download_ugoira
    \/ ILLUST_download_ugoira_meta
    \/ ILLUST_download_ugoira_zip
    \/ ArtWork_download_ugoira
    \/ ArtWork_download_ugoira_meta
    \/ ArtWork_download_ugoira_zip
    \/ ILLUST_follow
    \/ ILLUST_search
    \/ ILLUST_detail
    \/ ILLUST_comments
    \/ ILLUST_related
    \/ ILLUST_recommended
    \/ ILLUST_new_illusts
    \/ ILLUST_ugoira_metadata
    \/ ArtWork_related
    \/ ArtWork_ugoira_metadata
    \/ ILLUST_accessor_done

Spec == Init /\ [][Next]_vars

(***************************************************************************)
(* Properties.                                                             *)
(***************************************************************************)
\* The download requests of the call, in the order they were issued.
Downloads == SelectSeq(requests, LAMBDA r : r.kind = "download")

\* The argument mode of download_ugoira.
Mode == Arg("type", PyStr("zip"))

\* C1: a static-image download (ILLUST.download, ArtWork.download) of a
\* work whose type is ugoira issues no image download and ends with
\* ArtWorkTypeError.
C1_StaticDownloadRejectsUgoira ==
    (call.op = "download" /\ artwork # NoObject /\ artwork.type = "ugoira")
        => /\ Downloads = <<>>
           /\ pc = "done" => outcome = Raised("ArtWorkTypeError")

\* C2: an animation download (ILLUST.download_ugoira,
\* ArtWork.download_ugoira) of a work whose type is not ugoira issues no
\* request at all and ends with ArtWorkTypeError.
C2_UgoiraDownloadRejectsStatic ==
    (call.op = "download_ugoira" /\ artwork.type # "ugoira")
        => /\ requests = <<>>
           /\ pc = "done" => outcome = Raised("ArtWorkTypeError")

\* The frames a finished download_ugoira call returned in mode jpg, iter
\* or all.
ReturnedFrames ==
    IF Mode = PyStr("all") THEN outcome[2][2].frames[2] ELSE outcome[2][2]

FrameModeReturned ==
    /\ pc = "done"
    /\ call.op = "download_ugoira"
    /\ Mode \in {PyStr("jpg"), PyStr("iter"), PyStr("all")}
    /\ outcome[1] = "returned"
    /\ outcome[2] # PyNone

\* C3: in the modes jpg, iter and all the returned frames are one per
\* manifest frame, the i-th being the content of the archive entry that
\* the i-th manifest frame names (the entry the archive's name table
\* holds, which is the last one of that name).
C3_FramesFollowManifest ==
    FrameModeReturned =>
        LET ar == result[1][2]
            manifest == metadata.frames
            F == ReturnedFrames
        IN  /\ Len(F) = Len(manifest)
            /\ \A i \in DOMAIN manifest :
                 \E j \in DOMAIN ar :
                    /\ ar[j].name = manifest[i].file
                    /\ ar[j].content = F[i]
                    /\ \A k \in DOMAIN ar : k > j => ar[k].name # ar[j].name

\* C3 witness: frames were returned for a manifest that repeats a file
\* name, and for one whose order is the reverse of the archive's.
C3_Witness ==
    /\ FrameModeReturned
    /\ Len(metadata.frames) = 2
    /\ Len(result[1][2]) = 2
    /\ result[1][2][1].name = metadata.frames[2].file
    /\ result[1][2][2].name = metadata.frames[1].file
    /\ metadata.frames[1].file # metadata.frames[2].file
    /\ ReturnedFrames[1] # ReturnedFrames[2]

\* The URLs present in a bundle.
Present(urls) == {urls[v] : v \in {w \in Variants : urls[w] # PyNone}}

\* original, else large, else medium.
FallbackChain(urls) == PyOr(PyOr(urls.original, urls.large), urls.medium)

\* The URL the k-th download of the call is to take by the fallback chain
\* and the URLs present in the record it is taken from.
ChainUrl(k) ==
    IF call.op = "download_ugoira" THEN FallbackChain(metadata.zip_url)
    ELSE IF SingleBranch(Arg("full", PyBool(FALSE)), artwork)
    THEN PyOr(artwork.meta_single_page.original,
              FallbackChain(artwork.image_urls))
    ELSE FallbackChain(artwork.meta_pages[k].image_urls)

PresentUrls(k) ==
    IF call.op = "download_ugoira" THEN Present(metadata.zip_url)
    ELSE IF SingleBranch(Arg("full", PyBool(FALSE)), artwork)
    THEN Present(artwork.image_urls)
           \cup ({artwork.meta_single_page.original} \ {PyNone})
    ELSE Present(artwork.meta_pages[k].image_urls)

\* C4: every URL a download operation requests is the first present one of
\* original, large, medium of the record it comes from.
C4_FallbackChain ==
    call.op \in {"download", "download_ugoira"} =>
        \A k \in DOMAIN Downloads :
            PresentUrls(k) # {} =>
                /\ Downloads[k].target = ChainUrl(k)
                /\ Downloads[k].target \in PresentUrls(k)

\* C5 as stated: every finished call of the illustration section has
\* issued exactly one request.
C5_OneRequestPerCall ==
    (pc = "done" /\ call.obj = "ILLUST") => Len(requests) = 1

OneRequestOps ==
    {"follow", "search", "detail", "comments", "related", "recommended",
     "new_illusts", "ugoira_metadata"}

\* C5 amended: the eight plain accessors issue exactly one request, a GET.
\* download issues one detail GET followed by image downloads only: none
\* when it raises ArtWorkTypeError, one (or one per meta page with
\* full=True) when it returns.  download_ugoira issues one metadata GET
\* followed by at most one ZIP download, and exactly one when it returns.
C5_RequestsPerCall ==
    (pc = "done" /\ call.obj = "ILLUST") =>
        /\ requests # <<>>
        /\ requests[1].kind = "get"
        /\ \A i \in 2..Len(requests) : requests[i].kind = "download"
        /\ call.op \in OneRequestOps => Len(requests) = 1
        /\ call.op = "download" =>
             /\ outcome = Raised("ArtWorkTypeError") => Len(requests) = 1
             /\ outcome[1] = "returned" =>
                  Len(requests) =
                      1 + (IF SingleBranch(Arg("full", PyBool(FALSE)), artwork)
                           THEN 1 ELSE Len(artwork.meta_pages))
        /\ call.op = "download_ugoira" =>
             /\ Len(requests) <= 2
             /\ outcome[1] = "returned" => Len(requests) = 2

\* C5 witness: an ILLUST.download that returned after three requests.
C5_Witness ==
    /\ pc = "done"
    /\ call.obj = "ILLUST"
    /\ call.op = "download"
    /\ outcome[1] = "returned"
    /\ Len(requests) = 3

\* C6: a request that fails is the last request of its call and the call
\* ends raising that very failure; bytes that are no archive end the call
\* with BadZipFile and a manifest entry missing from the archive ends it
\* with KeyError.
C6_FailurePropagates ==
    /\ \A i \in DOMAIN requests :
         requests[i].status[1] = "failed" =>
            /\ i = Len(requests)
            /\ pc = "done"
            /\ outcome = Raised(requests[i].status[2])
    /\ (pc = "done" /\ call.op = "download_ugoira" /\ result # <<>>) =>
         /\ result[1] = <<"garbage">> => outcome = Raised("BadZipFile")
         /\ ( /\ result[1][1] = "zipdata"
              /\ Mode # PyStr("zip")
              /\ \E i \in DOMAIN metadata.frames :
                    \A j \in DOMAIN result[1][2] :
                        result[1][2][j].name # metadata.frames[i].file )
              => outcome = Raised("KeyError")

\* C6 witness: a call whose third request failed after two that succeeded.
C6_Witness ==
    /\ Len(requests) = 3
    /\ requests[3].status[1] = "failed"
    /\ requests[1].status = <<"ok">>
    /\ requests[2].status = <<"ok">>

\* The query key an argument is sent under.
QueryKey(name) ==
    CASE name = "id" -> "illust_id"
      [] name = "min_bookmarks" -> "bookmark_num_min"
      [] name = "max_bookmarks" -> "bookmark_num_max"
      [] name = "seed_ids" -> "seed_illust_ids"
      [] name = "type" -> "content_type"
      [] OTHER -> name

\* The value a parameter has when the caller omits it.
DeclaredDefault(name) ==
    CASE name = "filter" -> SearchFilter_ios
      [] name = "sort" -> PyStr("date_desc")
      [] name = "target" -> PyStr("partial_match_for_tags")
      [] name = "type" -> PyStr("illust")
      [] name = "include_ranking_label" -> PyBool(TRUE)
      [] OTHER -> PyNone

\* The optional parameters of each accessor that go into the query.
OptionalParams(op) ==
    CASE op = "follow" -> {"offset"}
      [] op = "search" ->
            {"sort", "target", "duration", "filter", "offset", "min_bookmarks",
             "max_bookmarks", "start_date", "end_date"}
      [] op = "detail" -> {"filter"}
      [] op = "comments" -> {"offset"}
      [] op = "related" -> {"filter", "offset"}
      [] op = "recommended" ->
            {"type", "include_ranking_label", "include_ranking_illusts",
             "offset", "filter", "max_bookmark_id_for_recommend",
             "min_bookmark_id_for_recent_illust", "bookmark_illust_ids",
             "include_privacy_policy", "viewed"}
      [] op = "new_illusts" -> {"type", "filter", "max_illust_id"}
      [] OTHER -> {}

\* A date is sent in its %Y-%m-%d form; every other value as it is.
OnTheWire(v) == IF v[1] = "date" THEN Strftime(v) ELSE v

\* C7: every argument the caller gives to follow, search, detail,
\* comments, related, recommended or new_illusts is in the query under its
\* key with the value given, and every optional parameter the caller omits
\* is sent with the value the signature declares for it (None, but for the
\* parameters that declare another default).  seed_ids, which C10 is
\* about, and with_auth, which selects the endpoint, are left out.
C7_ArgumentsForwarded ==
    (call.obj = "ILLUST" /\ call.op \in OneRequestOps /\ requests # <<>>) =>
        LET q == requests[1].params
        IN  /\ \A n \in DOMAIN call.args \ {"with_auth", "seed_ids"} :
                 /\ QueryKey(n) \in DOMAIN q
                 /\ q[QueryKey(n)] = OnTheWire(call.args[n])
            /\ \A n \in OptionalParams(call.op) \ DOMAIN call.args :
                 q[QueryKey(n)] = DeclaredDefault(n)

\* C8: when the caller passes an output destination to a static-image
\* download, every image download request of the call carries it.
C8_OutputCarried ==
    (call.op = "download" /\ "output" \in DOMAIN call.args) =>
        \A k \in DOMAIN Downloads : Downloads[k].output = call.args.output

\* C9: at no time is a request issued while an earlier one of the call is
\* in flight; and a static-image download that returns with full=True on
\* N >= 1 meta pages has issued exactly N downloads, the i-th for an URL of
\* the i-th meta page, and returns their N results in that order, while
\* with full=False or without meta pages it has issued exactly one
\* download and returns a list of one element.
C9_PagesInOrder ==
    /\ \A i \in 1..(Len(requests) - 1) : requests[i].status # <<"inflight">>
    /\ (call.op = "download" /\ pc = "done" /\ outcome[1] = "returned") =>
         LET N == Len(artwork.meta_pages)
             D == Downloads
             R == outcome[2][2]
         IN  IF Truthy(Arg("full", PyBool(FALSE))) /\ N >= 1
             THEN /\ Len(D) = N
                  /\ \A i \in 1..N :
                       D[i].target \in
                           {Str(artwork.meta_pages[i].image_urls[v]) :
                               v \in Variants}
                  /\ R = [i \in 1..N |-> PyBytes(D[i].target)]
             ELSE /\ Len(D) = 1
                  /\ Len(R) = 1
                  /\ R[1] = PyBytes(D[1].target)

\* C9 witness: ILLUST.download returned with full=True on two meta pages.
C9_Witness ==
    /\ call.obj = "ILLUST"
    /\ call.op = "download"
    /\ pc = "done"
    /\ outcome[1] = "returned"
    /\ Truthy(Arg("full", PyBool(FALSE)))
    /\ Len(artwork.meta_pages) = 2
    /\ Len(outcome[2][2]) = 2

\* C10: related sends seed_illust_ids as a flat list of ids: the
\* one-element list for an int, the list itself for a list, and no seed
\* ids (None or an empty list) when the caller gives none.
C10_SeedIdsFlat ==
    (call.op = "related" /\ requests # <<>>) =>
        LET sent == requests[1].params.seed_illust_ids
            name == IF call.obj = "ILLUST" THEN "seed_ids" ELSE "seed_id"
        IN  IF name \notin DOMAIN call.args
            THEN sent \in {PyNone, PyList(<<>>)}
            ELSE IF call.args[name][1] = "int"
            THEN sent = PyList(<<call.args[name]>>)
            ELSE sent = call.args[name]

\* The entry the archive's name table holds for a name: the last entry of
\* that name.
EntryOf(ar, name) ==
    CHOOSE j \in DOMAIN ar :
        /\ ar[j].name = name
        /\ \A k \in DOMAIN ar : ar[k].name = name => k <= j

\* Every manifest frame names an entry of the archive.
AllFramesPresent(ar, manifest) ==
    \A i \in DOMAIN manifest : \E j \in DOMAIN ar : ar[j].name = manifest[i].file

\* The frame sequence of an archive and a manifest, whatever the mode.
FrameSequence(ar, manifest) ==
    [i \in DOMAIN manifest |-> ar[EntryOf(ar, manifest[i].file)].content]

\* C11: a finished download_ugoira whose ZIP download completed returns
\* None in every mode when the download yielded no data; for an archive,
\* mode zip returns the archive alone, also when a manifest frame names no
\* entry of it, and the modes jpg, iter and all return one and the same
\* frame sequence of the archive and the manifest, as a list, as an
\* iterator, and as the 'frames' entry of a dict whose 'zip' entry is the
\* archive.
C11_ModesAgree ==
    (pc = "done" /\ call.op = "download_ugoira" /\ result # <<>>) =>
        LET data == result[1]
            ar == data[2]
            manifest == metadata.frames
        IN  /\ data = PyNone => outcome = Returned(PyNone)
            /\ (data[1] = "zipdata" /\ Mode = PyStr("zip")) =>
                  outcome = Returned(<<"ZipFile", ar>>)
            /\ ( /\ data[1] = "zipdata"
                 /\ Mode # PyStr("zip")
                 /\ AllFramesPresent(ar, manifest) ) =>
                  LET F == FrameSequence(ar, manifest)
                  IN  CASE Mode = PyStr("jpg") -> outcome = Returned(PyList(F))
                        [] Mode = PyStr("iter") -> outcome = Returned(<<"iter", F>>)
                        [] Mode = PyStr("all") ->
                              outcome = Returned(<<"dict",
                                                   [zip |-> <<"ZipFile", ar>>,
                                                    frames |-> PyList(F)]>>)

\* C11 witness: mode zip returned the archive although a manifest frame
\* names no entry of it.
C11_Witness ==
    /\ pc = "done"
    /\ call.op = "download_ugoira"
    /\ result # <<>>
    /\ result[1][1] = "zipdata"
    /\ Mode = PyStr("zip")
    /\ metadata.frames # <<>>
    /\ ~AllFramesPresent(result[1][2], metadata.frames)
    /\ outcome[1] = "returned"

====
